---------------------------- MODULE Spec2Model ----------------------------
(* A model of the pdf2pics tool server (src/pdf2pics.py) and its uploader  *)
(* (src/http_file.py): the two tools convert_pdfs and convert_pdf, the     *)
(* renderer convert_pdf_to_images and the thread pool of concurrent_upload.*)
(*                                                                         *)
(* Strings and paths are sequences of one-character strings, so that the   *)
(* path arithmetic of the code (stem, name, join, relative_to, the page    *)
(* file name, the uploaded URL) is computed and not assumed.               *)
EXTENDS Integers, Sequences, FiniteSets, TLC

(***************************************************************************)
(* Bounds of the model.                                                    *)
(***************************************************************************)
\* the largest page count of a document
MaxPages == 2

\* the largest configured upload concurrency
MaxWorkers == 2

\* the number of tool calls of a behaviour of SpecTwice
MaxCalls == 2

\* the matrix scale factor of the renderer
zoom == 4

(***************************************************************************)
(* Strings.                                                                *)
(***************************************************************************)
\* Python's None where a string is expected: no string of characters equals it
None == <<"None">>

Digits == <<"0", "1", "2", "3", "4", "5", "6", "7", "8", "9">>

RECURSIVE ToStr(_)
\* str(n) of a natural number, as the f-string of the page file name does
ToStr(n) ==
    IF n < 10 THEN <<Digits[n + 1]>>
    ELSE ToStr(n \div 10) \o <<Digits[(n % 10) + 1]>>

\* the positions of character c in s
Positions(s, c) == {i \in 1..Len(s) : s[i] = c}

Max(S) == CHOOSE m \in S : \A k \in S : k <= m

StartsWith(s, p) == Len(p) <= Len(s) /\ SubSeq(s, 1, Len(p)) = p

EndsWith(s, p) ==
    Len(p) <= Len(s) /\ SubSeq(s, Len(s) - Len(p) + 1, Len(s)) = p

\* pathlib's PurePath.name: the final path component
Name(p) ==
    IF Positions(p, "/") = {} THEN p
    ELSE SubSeq(p, Max(Positions(p, "/")) + 1, Len(p))

\* pathlib's PurePath.stem: the name without its last suffix; a name that
\* starts or ends with its only dot has no suffix
Stem(p) ==
    LET n == Name(p)
        dots == Positions(n, ".")
    IN  IF dots = {} \/ Max(dots) = 1 \/ Max(dots) = Len(n) THEN n
        ELSE SubSeq(n, 1, Max(dots) - 1)

\* pathlib's a / b for a relative b; Path('.') / b is b
Join(a, b) == IF a = <<".">> THEN b ELSE a \o <<"/">> \o b

\* pathlib's p.relative_to(root); None stands for its ValueError
RelativeTo(p, root) ==
    IF root = <<".">> THEN p
    ELSE IF StartsWith(p, root \o <<"/">>)
         THEN SubSeq(p, Len(root) + 2, Len(p))
         ELSE None

(***************************************************************************)
(* Configuration (config.ini fallbacks).                                   *)
(***************************************************************************)
PDF_ROOT == <<".">>

OUTPUT_ROOT == <<"o", "u", "t", "p", "u", "t">>

HTTP_FILE_SERVER_URL ==
    <<"h", "t", "t", "p", ":", "/", "/", "1", "2", "7", ".", "0", ".", "0", ".", "1">>

(***************************************************************************)
(* The file tree under the PDF root.  The directories are fixed; which of  *)
(* the candidate documents exist, and what each holds, is chosen by Init.  *)
(***************************************************************************)
Dirs == {<<"d">>, <<"d", "/", "a">>, <<"d", "/", "b">>}

\* two documents of one stem in two subdirectories
DocPaths ==
    { <<"d", "/", "a", "/", "x", ".", "p", "d", "f">>,
      <<"d", "/", "b", "/", "x", ".", "p", "d", "f">> }

\* a file that is no document, always present
OtherFiles == { <<"d", "/", "n", ".", "t", "x", "t">> }

\* what the caller may pass as pdfs_dir: two directories, a document path,
\* a path that does not exist
DirInputs ==
    { <<"d">>, <<"d", "/", "a">>,
      <<"d", "/", "a", "/", "x", ".", "p", "d", "f">>, <<"n", "o", "p", "e">> }

\* hashlib.md5(pdf_name).hexdigest() on the candidate document names
Md5Hex(pdf_name) ==
    CASE pdf_name = <<"d", "/", "a", "/", "x", ".", "p", "d", "f">> ->
           <<"9", "b", "0", "0", "9", "3", "b", "1", "7", "7", "5", "8", "7", "5", "a", "b",
             "3", "4", "e", "c", "6", "8", "a", "a", "e", "3", "7", "e", "5", "c", "a", "7">>
      [] pdf_name = <<"d", "/", "b", "/", "x", ".", "p", "d", "f">> ->
           <<"2", "7", "6", "0", "5", "2", "8", "a", "7", "f", "2", "5", "a", "2", "2", "9",
             "3", "9", "2", "e", "7", "8", "3", "b", "3", "6", "b", "b", "7", "c", "c", "1">>

\* What a document is to the renderer: corrupt (fitz.open raises), nomkdir
\* (its output directory cannot be created), pages (len(doc)), badPage (the
\* 1-based page whose rendering or saving raises, 0 for none).
DocKinds ==
    { [corrupt |-> TRUE, nomkdir |-> FALSE, pages |-> 0, badPage |-> 0],
      [corrupt |-> FALSE, nomkdir |-> TRUE, pages |-> 0, badPage |-> 0] }
    \cup { [corrupt |-> FALSE, nomkdir |-> FALSE, pages |-> n, badPage |-> b] :
             n \in 0..MaxPages, b \in 0..MaxPages }

Worlds ==
    UNION { { w \in [S -> DocKinds] : \A p \in S : w[p].badPage <= w[p].pages } :
              S \in SUBSET DocPaths }

(***************************************************************************)
(* State.                                                                  *)
(***************************************************************************)
VARIABLES
    docs,         \* the documents under the PDF root: path -> DocKinds
    max_workers,  \* HTTP_FILE_UPLOAD_CONCURRENCY
    fs,           \* the files under the output root: path -> content
    handles,      \* the documents opened by fitz.open and not closed
    callsLeft,    \* the tool calls the client has yet to make
    pc,           \* where the running tool call stands
    call,         \* the running tool call: tool, arg, flag
    pdf_list,     \* convert_pdfs: the documents not yet converted
    result,       \* convert_pdfs: the mapping being filled
    frame,        \* convert_pdf_to_images: pdf, output_dir, return_pic_url,
                  \*   page_num, image_paths
    file_list,    \* concurrent_upload: the paths to upload
    futures,      \* concurrent_upload: per submitted path its state
                  \*   ("pending", "running", then "uploaded", "failed" or
                  \*   "missing") and its result
    future,       \* concurrent_upload: the future whose result is taken next
    executor,     \* the pool: queue, threads, running, shutdown
    urls,         \* concurrent_upload: the URLs collected so far
    hist,         \* what the running call did: written, uploads, posted,
                  \*   and in its last upload batch: attempts, overtaken
    ret           \* how the last finished call ended, and the one before

world == <<docs, max_workers>>

loopVars == <<pdf_list, result>>

poolVars == <<file_list, futures, future, executor, urls>>

vars ==
    <<docs, max_workers, fs, handles, callsLeft, pc, call, pdf_list, result,
      frame, file_list, futures, future, executor, urls, hist, ret>>

EmptyMap == [k \in {} |-> <<>>]

NoFrame ==
    [pdf |-> None, output_dir |-> None, return_pic_url |-> FALSE,
     page_num |-> 0, image_paths |-> <<>>]

NoPool == [queue |-> <<>>, threads |-> 0, running |-> {}, shutdown |-> TRUE]

NoHist ==
    [written |-> {}, uploads |-> 0, posted |-> {}, attempts |-> <<>>,
     overtaken |-> FALSE]

NoCall == [tool |-> "none", arg |-> None, flag |-> FALSE]

NoRet == [status |-> "none"]

InitWith(n) ==
    /\ docs \in Worlds
    /\ max_workers \in 1..MaxWorkers
    /\ fs = EmptyMap
    /\ handles = [p \in DocPaths |-> 0]
    /\ callsLeft = n
    /\ pc = "idle"
    /\ call = NoCall
    /\ pdf_list = <<>>
    /\ result = EmptyMap
    /\ frame = NoFrame
    /\ file_list = <<>>
    /\ futures = <<>>
    /\ future = 1
    /\ executor = NoPool
    /\ urls = <<>>
    /\ hist = NoHist
    /\ ret = [last |-> NoRet, before |-> NoRet]

Init == InitWith(1)

(***************************************************************************)
(* The file tree as pathlib sees it.                                       *)
(***************************************************************************)
\* Path.is_dir()
IsDir(p) == p \in Dirs \/ p = <<".">>

\* Path.glob('**/*.pdf'): the files below p whose name ends in .pdf
Glob(p) ==
    { f \in DOMAIN docs \cup OtherFiles :
        /\ p = <<".">> \/ StartsWith(f, p \o <<"/">>)
        /\ EndsWith(Name(f), <<".", "p", "d", "f">>) }

\* the orders in which glob may yield a set of paths
Orders(S) ==
    { s \in [1..Cardinality(S) -> S] : \A i, j \in DOMAIN s : i # j => s[i] # s[j] }

\* leaving tool call c with the value returned or the exception raised; the
\* locals of the call are gone
Finish(c, status, value) ==
    /\ pc' = "idle"
    /\ pdf_list' = <<>>
    /\ result' = EmptyMap
    /\ frame' = NoFrame
    /\ file_list' = <<>>
    /\ futures' = <<>>
    /\ future' = 1
    /\ executor' = NoPool
    /\ urls' = <<>>
    /\ ret' = [last |-> [tool |-> c.tool, arg |-> c.arg, flag |-> c.flag,
                         status |-> status, value |-> value, files |-> fs'],
               before |-> ret.last]

\* entering convert_pdf_to_images(pdf, output_dir, return_pic_url)
Enter(pdf, output_dir, return_pic_url) ==
    /\ pc' = "open"
    /\ frame' = [pdf |-> pdf, output_dir |-> output_dir,
                 return_pic_url |-> return_pic_url,
                 page_num |-> 0, image_paths |-> <<>>]

\* the default of convert_pdf_to_images' parameter return_pic_url
DefaultReturnPicUrl == TRUE

\* a convert_pdfs that asks the renderer for local paths only
PassedNoUpload(return_pic_url) == FALSE

\* the third argument convert_pdfs passes to convert_pdf_to_images: none, so
\* the default, whatever the tool's own return_pic_url is
PassedReturnPicUrl(return_pic_url) == DefaultReturnPicUrl

\* a test that lets a single existing document through as well
ValidInputOrFile(pdfs) == IsDir(pdfs) \/ pdfs \in DOMAIN docs

\* the condition under which convert_pdfs scans, and does not raise ValueError
ValidInput(pdfs) == IsDir(pdfs)

(***************************************************************************)
(* The tool convert_pdfs.                                                  *)
(***************************************************************************)
\* convert_pdfs up to the loop: the directory test and the glob
CallConvertPdfs(pdfs_dir, return_pic_url) ==
    /\ pc = "idle"
    /\ callsLeft > 0
    /\ callsLeft' = callsLeft - 1
    /\ call' = [tool |-> "convert_pdfs", arg |-> pdfs_dir, flag |-> return_pic_url]
    /\ hist' = NoHist
    /\ UNCHANGED <<world, fs, handles>>
    /\ LET pdfs == Join(PDF_ROOT, pdfs_dir)
       IN  IF ValidInput(pdfs)
           THEN /\ \E order \in Orders(Glob(pdfs)) : pdf_list' = order
                /\ result' = EmptyMap
                /\ pc' = "for"
                /\ UNCHANGED <<frame, poolVars, ret>>
           ELSE Finish(call', "raised", <<"V", "a", "l", "u", "e", "E", "r", "r", "o", "r">>)

\* the head of the loop: the next document enters convert_pdf_to_images, or
\* the loop is over and result is returned
ForNext ==
    /\ pc = "for"
    /\ UNCHANGED <<world, fs, handles, callsLeft, call, hist>>
    /\ IF pdf_list = <<>>
       THEN Finish(call, "returned", result)
       ELSE LET pdf == Head(pdf_list)
                output_subdir == Join(Join(OUTPUT_ROOT, call.arg), Stem(pdf))
            IN  /\ Enter(pdf, output_subdir, PassedReturnPicUrl(call.flag))
                /\ UNCHANGED <<loopVars, poolVars, ret>>

(***************************************************************************)
(* The tool convert_pdf.                                                   *)
(***************************************************************************)
CallConvertPdf(pdf_name, return_pic_url) ==
    /\ pc = "idle"
    /\ callsLeft > 0
    /\ callsLeft' = callsLeft - 1
    /\ call' = [tool |-> "convert_pdf", arg |-> pdf_name, flag |-> return_pic_url]
    /\ hist' = NoHist
    /\ Enter(Join(PDF_ROOT, pdf_name), Join(OUTPUT_ROOT, Md5Hex(pdf_name)),
             return_pic_url)
    /\ UNCHANGED <<world, fs, handles, loopVars, poolVars, ret>>

(***************************************************************************)
(* The renderer convert_pdf_to_images.                                     *)
(***************************************************************************)
\* fitz.open(pdf) succeeds
CanOpen(pdf) == pdf \in DOMAIN docs /\ ~docs[pdf].corrupt

\* a file name that carries the 0-based page index
PageFileNameZeroBased(stem, page_num) ==
    stem \o <<"_">> \o ToStr(page_num) \o <<".", "p", "n", "g">>

\* the name of the image of the page with index page_num
PageFileName(stem, page_num) ==
    stem \o <<"_">> \o ToStr(page_num + 1) \o <<".", "p", "n", "g">>

\* the pixels of a page rendered at the matrix (zoom, zoom)
Pixmap(pdf, page_num) == [doc |-> pdf, page |-> page_num, zoom |-> zoom]

\* a save that never overwrites: an existing file is kept and the image goes
\* to a new name beside it
SaveFresh(files, output_path, img) ==
    LET target == IF output_path \in DOMAIN files
                  THEN output_path \o <<".", "1">> ELSE output_path
    IN  [f \in DOMAIN files \cup {target} |-> IF f = target THEN img ELSE files[f]]

\* img.save(output_path): the file is created or overwritten
Save(files, output_path, img) ==
    [f \in DOMAIN files \cup {output_path} |->
        IF f = output_path THEN img ELSE files[f]]

\* the file system without a file
Without(files, path) == [f \in DOMAIN files \ {path} |-> files[f]]

\* fitz.open: the handle is open from here on, or the exception leaves
Open ==
    /\ pc = "open"
    /\ IF CanOpen(frame.pdf)
       THEN /\ handles' = [handles EXCEPT ![frame.pdf] = @ + 1]
            /\ pc' = "mkdir"
       ELSE /\ pc' = "except"
            /\ UNCHANGED handles
    /\ UNCHANGED <<world, fs, callsLeft, call, loopVars, frame, poolVars, hist, ret>>

\* output_dir.mkdir(parents=True, exist_ok=True)
Mkdir ==
    /\ pc = "mkdir"
    /\ pc' = IF docs[frame.pdf].nomkdir THEN "except" ELSE "render"
    /\ UNCHANGED <<world, fs, handles, callsLeft, call, loopVars, frame, poolVars,
                   hist, ret>>

\* one turn of the page loop: render, save, append the relative path
RenderPage ==
    /\ pc = "render"
    /\ frame.page_num < docs[frame.pdf].pages
    /\ UNCHANGED <<world, handles, callsLeft, call, loopVars, poolVars, ret>>
    /\ IF docs[frame.pdf].badPage = frame.page_num + 1
       THEN /\ pc' = "except"
            /\ UNCHANGED <<fs, frame, hist>>
       ELSE LET output_path ==
                    Join(frame.output_dir,
                         PageFileName(Stem(frame.pdf), frame.page_num))
            IN  /\ fs' = Save(fs, output_path, Pixmap(frame.pdf, frame.page_num))
                /\ frame' = [frame EXCEPT
                               !.page_num = @ + 1,
                               !.image_paths =
                                   Append(@, RelativeTo(output_path, OUTPUT_ROOT))]
                /\ hist' = [hist EXCEPT !.written =
                               @ \cup {<<frame.pdf, frame.page_num + 1, output_path>>}]
                /\ pc' = "render"

\* the handles after doc.close()
Closed(h, pdf) == [h EXCEPT ![pdf] = @ - 1]

\* after the last page: doc.close(), then either the local paths are
\* returned or concurrent_upload is entered and its pool created
Close ==
    /\ pc = "render"
    /\ frame.page_num = docs[frame.pdf].pages
    /\ handles' = Closed(handles, frame.pdf)
    /\ UNCHANGED <<world, fs, callsLeft, call, loopVars, frame, ret>>
    /\ IF frame.return_pic_url
       THEN /\ file_list' = [i \in DOMAIN frame.image_paths |->
                               Join(OUTPUT_ROOT, frame.image_paths[i])]
            /\ futures' = <<>>
            /\ future' = 1
            /\ urls' = <<>>
            /\ executor' = [queue |-> <<>>, threads |-> 0, running |-> {},
                            shutdown |-> FALSE]
            /\ hist' = [hist EXCEPT
                          !.uploads = @ + 1,
                          !.attempts = [i \in DOMAIN frame.image_paths |-> 0],
                          !.overtaken = FALSE]
            /\ pc' = "submit"
       ELSE /\ pc' = "return"
            /\ UNCHANGED <<poolVars, hist>>

(***************************************************************************)
(* The uploader: concurrent_upload and upload_file.                        *)
(***************************************************************************)
\* a pool that starts a thread for every submitted upload
AdjustThreadCountUnbounded(threads, max) == threads + 1

\* ThreadPoolExecutor.submit: one more worker thread unless max_workers run
AdjustThreadCount(threads, max) == IF threads < max THEN threads + 1 ELSE threads

\* a URL made of the whole local path
UploadedUrlFullPath(file_path, url) == url \o <<"/">> \o file_path

\* what upload_file returns after a successful POST
UploadedUrl(file_path, url) == url \o <<"/">> \o Name(file_path)

\* future.done()
IsDone(f) == f.state \in {"uploaded", "failed", "missing"}

\* `if result:` a URL that is neither None nor the empty string
Truthy(r) == r # None /\ r # <<>>

\* a loop that puts each URL in front of the ones it has
CollectedFront(us, r) == IF Truthy(r) THEN <<r>> \o us ELSE us

\* a loop that appends every result, None too
CollectedAll(us, r) == Append(us, r)

\* urls after the loop over the futures took the result r
Collected(us, r) == IF Truthy(r) THEN Append(us, r) ELSE us

\* executor.submit(upload_file, file, url) for the next file of file_list
Submit ==
    /\ pc = "submit"
    /\ IF Len(futures) < Len(file_list)
       THEN /\ futures' = Append(futures, [state |-> "pending", result |-> None])
            /\ executor' = [executor EXCEPT
                              !.queue = Append(@, Len(futures) + 1),
                              !.threads = AdjustThreadCount(@, max_workers)]
            /\ pc' = "submit"
       ELSE /\ pc' = "result"
            /\ UNCHANGED <<futures, executor>>
    /\ UNCHANGED <<world, fs, handles, callsLeft, call, loopVars, frame, file_list,
                   future, urls, hist, ret>>

\* upload i is done in fs while an upload submitted before it is not
Overtakes(i, fut) ==
    /\ IsDone(fut[i])
    /\ \E j \in 1..(i - 1) : ~IsDone(fut[j])

\* an idle worker takes the oldest queued upload and runs upload_file up to
\* the POST; a file that is gone by then (file_path.exists() is false) ends
\* the upload with None
StartUpload ==
    /\ pc \in {"submit", "result"}
    /\ executor.queue # <<>>
    /\ Cardinality(executor.running) < executor.threads
    /\ LET i == Head(executor.queue)
       IN  \E exists \in IF file_list[i] \in DOMAIN fs THEN BOOLEAN ELSE {FALSE} :
              IF exists
              THEN /\ futures' = [futures EXCEPT ![i].state = "running"]
                   /\ executor' = [executor EXCEPT !.queue = Tail(@),
                                                   !.running = @ \cup {i}]
                   /\ UNCHANGED fs
              ELSE /\ futures' = [futures EXCEPT ![i] =
                                     [state |-> "missing", result |-> None]]
                   /\ executor' = [executor EXCEPT !.queue = Tail(@)]
                   /\ fs' = Without(fs, file_list[i])
    /\ hist' = [hist EXCEPT !.attempts[Head(executor.queue)] = @ + 1,
                            !.overtaken = @ \/ Overtakes(Head(executor.queue), futures')]
    /\ UNCHANGED <<world, handles, callsLeft, call, pc, loopVars, frame, file_list,
                   future, urls, ret>>

\* an uploader that queues a failed upload again
FinishUploadRetry(i) ==
    /\ pc \in {"submit", "result"}
    /\ i \in executor.running
    /\ \E ok \in BOOLEAN :
          IF ok
          THEN LET r == UploadedUrl(file_list[i], HTTP_FILE_SERVER_URL)
               IN  /\ futures' = [futures EXCEPT ![i] =
                                     [state |-> "uploaded", result |-> r]]
                   /\ hist' = [hist EXCEPT !.posted = @ \cup {<<file_list[i], r>>}]
                   /\ executor' = [executor EXCEPT !.running = @ \ {i}]
          ELSE /\ futures' = [futures EXCEPT ![i].state = "pending"]
               /\ executor' = [executor EXCEPT !.running = @ \ {i},
                                               !.queue = Append(@, i)]
               /\ UNCHANGED hist
    /\ UNCHANGED <<world, fs, handles, callsLeft, call, pc, loopVars, frame,
                   file_list, future, urls, ret>>

\* the POST of upload i ends: the URL, or None after an exception
FinishUpload(i) ==
    /\ pc \in {"submit", "result"}
    /\ i \in executor.running
    /\ \E ok \in BOOLEAN :
          LET r == IF ok THEN UploadedUrl(file_list[i], HTTP_FILE_SERVER_URL)
                   ELSE None
          IN  /\ futures' = [futures EXCEPT ![i] =
                                [state |-> IF ok THEN "uploaded" ELSE "failed",
                                 result |-> r]]
              /\ hist' = [hist EXCEPT
                            !.posted = IF ok THEN @ \cup {<<file_list[i], r>>} ELSE @,
                            !.overtaken = @ \/ Overtakes(i, futures')]
    /\ executor' = [executor EXCEPT !.running = @ \ {i}]
    /\ UNCHANGED <<world, fs, handles, callsLeft, call, pc, loopVars, frame,
                   file_list, future, urls, ret>>

\* future.result() of the next future, once it is done
TakeResult ==
    /\ pc = "result"
    /\ future <= Len(futures)
    /\ IsDone(futures[future])
    /\ urls' = Collected(urls, futures[future].result)
    /\ future' = future + 1
    /\ UNCHANGED <<world, fs, handles, callsLeft, call, pc, loopVars, frame,
                   file_list, futures, executor, hist, ret>>

\* a concurrent_upload whose pool is created without a with block: it returns
\* urls and leaves the pool and its threads as they are
ShutdownLeaks ==
    /\ pc = "result"
    /\ future > Len(futures)
    /\ frame' = [frame EXCEPT !.image_paths = urls]
    /\ pc' = "return"
    /\ UNCHANGED <<world, fs, handles, callsLeft, call, loopVars, file_list,
                   futures, future, executor, urls, hist, ret>>

\* leaving the with block shuts the pool down; concurrent_upload returns urls
\* and convert_pdf_to_images makes them its image_paths
Shutdown ==
    /\ pc = "result"
    /\ future > Len(futures)
    /\ executor.queue = <<>>
    /\ executor.running = {}
    /\ executor' = [executor EXCEPT !.threads = 0, !.shutdown = TRUE]
    /\ frame' = [frame EXCEPT !.image_paths = urls]
    /\ pc' = "return"
    /\ UNCHANGED <<world, fs, handles, callsLeft, call, loopVars, file_list,
                   futures, future, urls, hist, ret>>

(***************************************************************************)
(* Leaving convert_pdf_to_images.                                          *)
(***************************************************************************)
\* result[key] = value
Assign(map, key, value) ==
    [k \in DOMAIN map \cup {key} |-> IF k = key THEN value ELSE map[k]]

\* convert_pdf_to_images returns image_paths: convert_pdfs stores them under
\* the document's path and goes on; convert_pdf returns its one-entry mapping
Return ==
    /\ pc = "return"
    /\ UNCHANGED <<world, fs, handles, callsLeft, call, hist>>
    /\ IF call.tool = "convert_pdfs"
       THEN /\ result' = Assign(result, RelativeTo(frame.pdf, PDF_ROOT),
                                frame.image_paths)
            /\ pdf_list' = Tail(pdf_list)
            /\ frame' = NoFrame
            /\ pc' = "for"
            /\ UNCHANGED <<poolVars, ret>>
       ELSE Finish(call, "returned", Assign(EmptyMap, call.arg, frame.image_paths))

\* a handler that stores the images rendered before the exception under the
\* failing document, and then returns result
ExceptKeepsPartial ==
    /\ pc = "except"
    /\ UNCHANGED <<world, fs, handles, callsLeft, call, hist>>
    /\ IF call.tool = "convert_pdfs"
       THEN Finish(call, "returned",
                   Assign(result, RelativeTo(frame.pdf, PDF_ROOT), frame.image_paths))
       ELSE Finish(call, "raised", <<"E", "x", "c", "e", "p", "t", "i", "o", "n">>)

\* an exception leaves convert_pdf_to_images: convert_pdfs catches it around
\* its whole loop, logs and returns result; convert_pdf lets it through
Except ==
    /\ pc = "except"
    /\ UNCHANGED <<world, fs, handles, callsLeft, call, hist>>
    /\ IF call.tool = "convert_pdfs"
       THEN Finish(call, "returned", result)
       ELSE Finish(call, "raised", <<"E", "x", "c", "e", "p", "t", "i", "o", "n">>)

(***************************************************************************)
(* Specifications.                                                         *)
(***************************************************************************)
Next ==
    \/ \E pdfs_dir \in DirInputs, return_pic_url \in BOOLEAN :
          CallConvertPdfs(pdfs_dir, return_pic_url)
    \/ \E pdf_name \in DocPaths, return_pic_url \in BOOLEAN :
          CallConvertPdf(pdf_name, return_pic_url)
    \/ ForNext
    \/ Open
    \/ Mkdir
    \/ RenderPage
    \/ Close
    \/ Submit
    \/ StartUpload
    \/ \E i \in executor.running : FinishUpload(i)
    \/ TakeResult
    \/ Shutdown
    \/ Return
    \/ Except

\* one tool call from any tree of documents
Spec == Init /\ [][Next]_vars

\* MaxCalls tool calls in a row, on a tree that holds d/a/x.pdf or nothing
InitTwice ==
    /\ InitWith(MaxCalls)
    /\ DOMAIN docs \subseteq {<<"d", "/", "a", "/", "x", ".", "p", "d", "f">>}

\* the steps of a client that calls convert_pdf only
NextTwice ==
    \/ \E pdf_name \in DocPaths, return_pic_url \in BOOLEAN :
          CallConvertPdf(pdf_name, return_pic_url)
    \/ Open
    \/ Mkdir
    \/ RenderPage
    \/ Close
    \/ Submit
    \/ StartUpload
    \/ \E i \in executor.running : FinishUpload(i)
    \/ TakeResult
    \/ Shutdown
    \/ Return
    \/ Except

SpecTwice == InitTwice /\ [][NextTwice]_vars

(***************************************************************************)
(* Properties.                                                             *)
(***************************************************************************)
\* a tool call has ended and no other has begun: hist is that call's
Ended == pc = "idle" /\ ret.last.status # "none"

\* a document that opens and renders all its pages
Healthy(p) ==
    /\ p \in DOMAIN docs
    /\ ~docs[p].corrupt
    /\ ~docs[p].nomkdir
    /\ docs[p].badPage = 0

\* the documents below a directory of the tree, by their paths alone
Discovered(dir) == {p \in DOMAIN docs : StartsWith(p, dir \o <<"/">>)}

\* C1: a convert_pdfs call on a directory returns, and its mapping has an
\* entry for every discovered document that opens and renders, wherever it
\* stands among the failing ones, and none for a failing document.
C1_FailureIsolation ==
    (Ended /\ ret.last.tool = "convert_pdfs" /\ ret.last.arg \in Dirs) =>
        /\ ret.last.status = "returned"
        /\ \A p \in Discovered(ret.last.arg) :
              Healthy(p) <=> p \in DOMAIN ret.last.value

\* the local paths written and the URLs returned by upload_file in the call
WrittenPaths == {w[3] : w \in hist.written}

PostedUrls == {u[2] : u \in hist.posted}

\* C2: with return_pic_url false the uploader is never invoked and every
\* image list holds local paths relative to the output root; with
\* return_pic_url true every image list holds URLs returned by the uploader.
C2_UploadFlagHonoured ==
    (Ended /\ ret.last.status = "returned") =>
        LET m == ret.last.value
        IN  IF ret.last.flag
            THEN \A k \in DOMAIN m : \A i \in DOMAIN m[k] : m[k][i] \in PostedUrls
            ELSE /\ hist.uploads = 0
                 /\ \A k \in DOMAIN m : \A i \in DOMAIN m[k] :
                       Join(OUTPUT_ROOT, m[k][i]) \in WrittenPaths

\* concurrent_upload is returning its list (the pool is shut down, the
\* futures are still at hand)
UploadReturns == pc = "return" /\ frame.return_pic_url

\* the uploads of the batch that succeeded
Succeeded == {i \in DOMAIN futures : futures[i].state = "uploaded"}

RECURSIVE Basename(_)
\* what follows the last separator of a path
Basename(path) ==
    IF path = <<>> \/ path[Len(path)] = "/" THEN <<>>
    ELSE Append(Basename(SubSeq(path, 1, Len(path) - 1)), path[Len(path)])

\* C3: given K paths of which M uploads succeed, concurrent_upload returns
\* exactly M entries, one per successful path, each endpoint + '/' +
\* basename(path); a failed or missing item is left out and removes no other.
C3_PartialUpload ==
    UploadReturns =>
        /\ Len(futures) = Len(file_list)
        /\ \A i \in DOMAIN futures : futures[i].state \in {"uploaded", "failed", "missing"}
        /\ Len(frame.image_paths) = Cardinality(Succeeded)
        /\ \A i \in Succeeded : \E j \in DOMAIN frame.image_paths :
              frame.image_paths[j] =
                  HTTP_FILE_SERVER_URL \o <<"/">> \o Basename(file_list[i])
        /\ \A j \in DOMAIN frame.image_paths : \E i \in Succeeded :
              frame.image_paths[j] =
                  HTTP_FILE_SERVER_URL \o <<"/">> \o Basename(file_list[i])

\* a batch returns with one upload succeeded and another failed or missing
C3_Witness ==
    /\ UploadReturns
    /\ Succeeded # {}
    /\ \E i \in DOMAIN futures : futures[i].state = "failed"
    /\ Len(frame.image_paths) < Len(file_list)

\* C4: at any time the uploads in flight (started, not finished) are at most
\* the concurrency bound.
C4_BoundedConcurrency == Cardinality(executor.running) <= max_workers

\* the pool is saturated while another upload waits in the queue
C4_Witness ==
    /\ Cardinality(executor.running) = max_workers
    /\ executor.queue # <<>>

\* C5: no two distinct (document, page) pairs of one call are written to the
\* same local file or uploaded under the same file name.
C5_NameInjective ==
    call.tool = "convert_pdfs" =>
        \A v, w \in hist.written :
            (v[1] # w[1] \/ v[2] # w[2]) =>
                v[3] # w[3] /\ Basename(v[3]) # Basename(w[3])

\* the number a digit character stands for
DigitValue(c) == CHOOSE d \in 0..9 : Digits[d + 1] = c

RECURSIVE ParseNat(_)
\* the number a string of digits reads as
ParseNat(s) ==
    IF s = <<>> THEN 0
    ELSE 10 * ParseNat(SubSeq(s, 1, Len(s) - 1)) + DigitValue(s[Len(s)])

\* the page number an image path carries: the digits between its last
\* underscore and its extension
PageNumberOf(path) ==
    ParseNat(SubSeq(path, Max(Positions(path, "_")) + 1,
                    Max(Positions(path, ".")) - 1))

\* the renderer returns local paths: nothing is uploaded
RenderReturns == pc = "return" /\ ~frame.return_pic_url

\* C6: a document of N >= 0 pages that opens and renders, without upload,
\* returns exactly N image paths, the i-th carrying the page number i.
C6_PageEnumeration ==
    RenderReturns =>
        /\ Len(frame.image_paths) = docs[frame.pdf].pages
        /\ \A i \in DOMAIN frame.image_paths :
              PageNumberOf(frame.image_paths[i]) = i

\* a document of two pages or more has been rendered without upload
C6_Witness == RenderReturns /\ Len(frame.image_paths) >= 2

\* a relative document path without its extension
WithoutExt(d) == SubSeq(d, 1, Max(Positions(d, ".")) - 1)

\* every path separator replaced by an underscore
Flatten(s) == [i \in 1..Len(s) |-> IF s[i] = "/" THEN "_" ELSE s[i]]

\* the URL the specification names for page p of document d
FlatUrl(d, p) ==
    HTTP_FILE_SERVER_URL \o <<"/">> \o Flatten(WithoutExt(d)) \o <<"-">>
        \o ToStr(p) \o <<".", "p", "n", "g">>

\* the URL made of the file stem of d alone, an underscore and the page
StemUrl(d, p) ==
    HTTP_FILE_SERVER_URL \o <<"/">> \o Basename(WithoutExt(d)) \o <<"_">>
        \o ToStr(p) \o <<".", "p", "n", "g">>

\* a call that asked for upload has returned its mapping
UploadedMapping == Ended /\ ret.last.status = "returned" /\ ret.last.flag

BatchEnded == Ended /\ ret.last.tool = "convert_pdfs"

\* nothing was opened, rendered or uploaded in the call
NothingDone ==
    /\ hist.written = {}
    /\ hist.uploads = 0
    /\ \A p \in DocPaths : handles[p] = 0

\* C8 as stated: a path that is a single existing document is processed as a
\* one-element set; the call fails iff the path is neither a directory nor a
\* document, and then before anything is rendered or uploaded.
C8_DocumentAccepted ==
    BatchEnded =>
        /\ ret.last.status = "raised" <=>
              ~(ret.last.arg \in Dirs \/ ret.last.arg \in DOMAIN docs)
        /\ ret.last.status = "raised" => NothingDone
        /\ (ret.last.arg \in DOMAIN docs /\ ret.last.status = "returned") =>
              DOMAIN ret.last.value \subseteq {ret.last.arg}

\* C8 amended: convert_pdfs fails with an input error iff the path is not a
\* directory (a single existing document is rejected too), and then before
\* anything is opened, rendered or uploaded.
C8_DirectoryRequired ==
    BatchEnded =>
        /\ ret.last.status = "raised" <=> ret.last.arg \notin Dirs
        /\ ret.last.status = "raised" => NothingDone

\* convert_pdfs was given the path of an existing document and raised
C8_Witness ==
    /\ BatchEnded
    /\ ret.last.arg \in DOMAIN docs
    /\ ret.last.status = "raised"

\* the last two calls were convert_pdf without upload on one document
CalledTwice ==
    /\ pc = "idle"
    /\ ret.last.status # "none"
    /\ ret.before.status # "none"
    /\ ret.last.tool = "convert_pdf"
    /\ ret.before.tool = "convert_pdf"
    /\ ret.last.arg = ret.before.arg
    /\ ~ret.last.flag
    /\ ~ret.before.flag

\* C9: convert_pdf called twice on one unchanged document without upload
\* ends the same way with the same mapping, and leaves the same output files
\* with the same contents.
C9_Idempotent ==
    CalledTwice =>
        /\ ret.last.status = ret.before.status
        /\ ret.last.value = ret.before.value
        /\ ret.last.files = ret.before.files

\* both calls returned the images of a document of one page or more
C9_Witness ==
    /\ CalledTwice
    /\ ret.last.status = "returned"
    /\ Len(ret.last.value[ret.last.arg]) >= 1

\* C10: once the renderer has left its page loop, by return or by
\* exception, no document handle is open.
C10_HandleReleased ==
    pc \notin {"open", "mkdir", "render"} => \A p \in DocPaths : handles[p] = 0

\* uploads are queued or in flight
UploadsPending == executor.queue # <<>> \/ executor.running # {}

\* C11: in a convert_pdfs batch the uploader is invoked once per converted
\* document; uploads are queued or in flight only inside the upload of the
\* document at hand, after all its pages are written and its handle closed,
\* and every path of the batch is a page of that document; while the next
\* document is fetched, opened or rendered no upload is queued or in flight.
C11_PerDocumentUpload ==
    call.tool = "convert_pdfs" =>
        /\ pc = "for" => hist.uploads = Cardinality(DOMAIN result)
        /\ (Ended /\ ret.last.status = "returned") =>
              hist.uploads = Cardinality(DOMAIN ret.last.value)
        /\ UploadsPending =>
              /\ pc \in {"submit", "result"}
              /\ frame.page_num = docs[frame.pdf].pages
              /\ handles[frame.pdf] = 0
              /\ Len(file_list) = docs[frame.pdf].pages
              /\ \A i \in DOMAIN file_list :
                    <<frame.pdf, i, file_list[i]>> \in hist.written
        /\ pc \in {"for", "open", "mkdir", "render", "except", "idle"} =>
              ~UploadsPending /\ \A i \in DOMAIN futures : IsDone(futures[i])

\* the second document of a batch has an upload in flight, the first
\* document's entry being in the mapping
C11_Witness ==
    /\ call.tool = "convert_pdfs"
    /\ DOMAIN result # {}
    /\ hist.uploads = 2
    /\ executor.running # {}

\* C12: whenever concurrent_upload has returned, every path was submitted,
\* every submitted upload has finished (succeeded, failed or missing), none
\* is queued or in flight, and the pool is shut down with no thread left.
C12_PoolNotLeaked ==
    /\ UploadReturns =>
          /\ Len(futures) = Len(file_list)
          /\ \A i \in DOMAIN futures : IsDone(futures[i])
    /\ pc \notin {"submit", "result"} =>
          /\ executor.shutdown
          /\ executor.threads = 0
          /\ ~UploadsPending

\* concurrent_upload returns after every upload of a batch of two or more
\* ended without a URL, one by a failed POST and one by a missing file
C12_Witness ==
    /\ UploadReturns
    /\ executor.shutdown
    /\ Succeeded = {}
    /\ \E i, j \in DOMAIN futures :
          futures[i].state = "failed" /\ futures[j].state = "missing"

\* document d opens and renders, and every one of its pages was written in
\* the call
FullyRendered(d) ==
    /\ Healthy(d)
    /\ \A p \in 1..docs[d].pages :
          \E w \in hist.written : w[1] = d /\ w[2] = p

\* C13: at any time a document has an entry in the mapping only if it
\* opened and all its pages were rendered; a document that is missing,
\* unreadable or fails at some page has no entry, in the mapping being
\* filled and in the mapping returned.
C13_NoPartialEntry ==
    /\ \A d \in DOMAIN result : FullyRendered(d)
    /\ (Ended /\ ret.last.status = "returned") =>
          \A d \in DOMAIN ret.last.value : FullyRendered(d)

\* a batch has returned without an entry for a document that failed at its
\* second page, after its first page was written
C13_Witness ==
    /\ BatchEnded
    /\ ret.last.status = "returned"
    /\ \E d \in Discovered(ret.last.arg) :
          /\ docs[d].badPage >= 2
          /\ d \notin DOMAIN ret.last.value
          /\ \E w \in hist.written : w[1] = d /\ w[2] = 1

\* concurrent_upload is running or returning
InUpload == pc \in {"submit", "result"} \/ UploadReturns

\* C14: within one concurrent_upload call upload_file is entered at most
\* once per input path, exactly once by the time the call returns; an upload
\* that failed or succeeded is never queued or started again.
C14_NoRetry ==
    InUpload =>
        /\ Len(hist.attempts) = Len(file_list)
        /\ \A i \in DOMAIN hist.attempts : hist.attempts[i] <= 1
        /\ \A i \in DOMAIN futures :
              futures[i].state # "pending" <=> hist.attempts[i] = 1
        /\ \A k \in DOMAIN executor.queue :
              futures[executor.queue[k]].state = "pending"
        /\ \A i \in executor.running : futures[i].state = "running"
        /\ UploadReturns => \A i \in DOMAIN file_list : hist.attempts[i] = 1

\* concurrent_upload returns from a batch in which one upload failed, it
\* and the others having been attempted once
C14_Witness ==
    /\ UploadReturns
    /\ Len(file_list) >= 2
    /\ \E i \in DOMAIN futures :
          futures[i].state = "failed" /\ hist.attempts[i] = 1

RECURSIVE SucceededUrls(_)
\* the URLs of the first k input paths whose upload succeeded, in input order
SucceededUrls(k) ==
    IF k = 0 THEN <<>>
    ELSE IF futures[k].state = "uploaded"
         THEN Append(SucceededUrls(k - 1),
                     HTTP_FILE_SERVER_URL \o <<"/">> \o Basename(file_list[k]))
         ELSE SucceededUrls(k - 1)

\* C15: the list concurrent_upload returns is the subsequence of the input
\* paths whose upload succeeded, as URLs, in submission order, whatever the
\* order in which the uploads completed; with no failure the URLs of a
\* document are in ascending page order.
C15_OrderPreserved ==
    UploadReturns =>
        /\ frame.image_paths = SucceededUrls(Len(futures))
        /\ Succeeded = DOMAIN file_list =>
              \A i \in DOMAIN frame.image_paths :
                  PageNumberOf(frame.image_paths[i]) = i

\* concurrent_upload returns two URLs or more of a batch in which an upload
\* completed before one submitted earlier
C15_Witness ==
    /\ UploadReturns
    /\ hist.overtaken
    /\ Cardinality(Succeeded) >= 2

=============================================================================
